---------------------------- MODULE Spec2Model ----------------------------
(***************************************************************************)
(* Ranking objectives of LightGBM (src/objective/rank_objective.hpp):      *)
(* RankingObjective (the per-query dispatcher), LambdarankNDCG (pairwise   *)
(* gradients, sigmoid table, position-bias estimator) and RankXENDCG.      *)
(*                                                                         *)
(* Numbers.  The C++ code computes in float (score_t, label_t) and double. *)
(* The model computes in one binary floating-point format with MantBits    *)
(* bits of mantissa, round-to-nearest-even, the IEEE special values        *)
(* (infinities, NaN) and an unbounded exponent.  Zero has no sign.         *)
(* The transcendental functions (exp, log, log2, pow) are the piecewise    *)
(* linear interpolations of 2^x and log2(x) between powers of two; they    *)
(* are exact at 0 and 1 and keep the IEEE special cases.                   *)
(*                                                                         *)
(* Arrays are functions over 0..n-1, as in the source.                     *)
(***************************************************************************)
EXTENDS Integers, Sequences, FiniteSets, TLC

(***************************************************************************)
(* Bounds of the model.                                                    *)
(***************************************************************************)
MantBits == 8

\* GetGradients calls of one run
MaxCalls == 2

\* threads of the OpenMP team that runs the parallel loop (omp_get_max_threads)
OmpMaxThreads == 2

\* queries and documents of a data set, and the largest relevance label
MaxQueries == 2

MaxData == 2

\* documents of the query of a single-query data set
MaxCnt == 3

MaxLabel == 1

\* config.lambdarank_truncation_level is drawn from 1..MaxTruncation
MaxTruncation == 2

\* Init calls on one engine
MaxInits == 2

---------------------------------------------------------------------------
(***************************************************************************)
(* Floating point.                                                         *)
(***************************************************************************)
Zero == [k |-> "zero", s |-> 1, m |-> 0, e |-> 0]
NaN == [k |-> "nan", s |-> 1, m |-> 0, e |-> 0]
PInf == [k |-> "inf", s |-> 1, m |-> 0, e |-> 0]
NInf == [k |-> "inf", s |-> -1, m |-> 0, e |-> 0]

Inf(s) == IF s = 1 THEN PInf ELSE NInf

IAbs(n) == IF n < 0 THEN -n ELSE n

\* number of bits of the positive integer M < 2^30
BitLen(M) ==
    IF M < 32768
    THEN IF M < 256
         THEN IF M < 16
              THEN IF M < 4
                   THEN IF M < 2
                        THEN 1
                        ELSE 2
                   ELSE IF M < 8
                        THEN 3
                        ELSE 4
              ELSE IF M < 64
                   THEN IF M < 32
                        THEN 5
                        ELSE 6
                   ELSE IF M < 128
                        THEN 7
                        ELSE 8
         ELSE IF M < 4096
              THEN IF M < 1024
                   THEN IF M < 512
                        THEN 9
                        ELSE 10
                   ELSE IF M < 2048
                        THEN 11
                        ELSE 12
              ELSE IF M < 16384
                   THEN IF M < 8192
                        THEN 13
                        ELSE 14
                   ELSE 15
    ELSE IF M < 8388608
         THEN IF M < 524288
              THEN IF M < 131072
                   THEN IF M < 65536
                        THEN 16
                        ELSE 17
                   ELSE IF M < 262144
                        THEN 18
                        ELSE 19
              ELSE IF M < 2097152
                   THEN IF M < 1048576
                        THEN 20
                        ELSE 21
                   ELSE IF M < 4194304
                        THEN 22
                        ELSE 23
         ELSE IF M < 134217728
              THEN IF M < 33554432
                   THEN IF M < 16777216
                        THEN 24
                        ELSE 25
                   ELSE IF M < 67108864
                        THEN 26
                        ELSE 27
              ELSE IF M < 536870912
                   THEN IF M < 268435456
                        THEN 28
                        ELSE 29
                   ELSE 30

\* s * M * 2^E rounded to MantBits bits, to nearest, ties to even; sticky
\* says that the exact value is a little more than M
Rounded(s, E, sh, q1) ==
    IF q1 = 2^MantBits
    THEN [k |-> "fin", s |-> s, m |-> 2^(MantBits - 1), e |-> E + sh + 1]
    ELSE [k |-> "fin", s |-> s, m |-> q1, e |-> E + sh]

\* M has bl bits, q are its MantBits leading bits and r the other sh bits
RoundUp(q, r, half, sticky) ==
    IF r > half \/ (r = half /\ (sticky \/ q % 2 = 1)) THEN q + 1 ELSE q

NormalizeBits(s, M, E, sticky, bl) ==
    IF bl <= MantBits
    THEN [k |-> "fin", s |-> s, m |-> M * 2^(MantBits - bl),
          e |-> E - (MantBits - bl)]
    ELSE Rounded(s, E, bl - MantBits,
                 RoundUp(M \div 2^(bl - MantBits), M % 2^(bl - MantBits),
                         2^(bl - MantBits - 1), sticky))

Normalize(s, M, E, sticky) == NormalizeBits(s, M, E, sticky, BitLen(M))

FromInt(n) == IF n = 0 THEN Zero
              ELSE Normalize(IF n < 0 THEN -1 ELSE 1, IAbs(n), 0, FALSE)

One == [k |-> "fin", s |-> 1, m |-> 2^(MantBits - 1), e |-> -(MantBits - 1)]

Neg(a) == IF a.k \in {"fin", "inf"} THEN [a EXCEPT !.s = -a.s] ELSE a

FAbs(a) == IF a.k \in {"fin", "inf"} THEN [a EXCEPT !.s = 1] ELSE a

Mul(a, b) ==
    IF a.k = "nan" \/ b.k = "nan" THEN NaN
    ELSE IF a.k = "inf" \/ b.k = "inf"
         THEN IF a.k = "zero" \/ b.k = "zero" THEN NaN ELSE Inf(a.s * b.s)
    ELSE IF a.k = "zero" \/ b.k = "zero" THEN Zero
    ELSE Normalize(a.s * b.s, a.m * b.m, a.e + b.e, FALSE)

Div(a, b) ==
    IF a.k = "nan" \/ b.k = "nan" THEN NaN
    ELSE IF a.k = "inf"
         THEN IF b.k = "inf" THEN NaN ELSE Inf(a.s * b.s)
    ELSE IF b.k = "inf" THEN Zero
    ELSE IF b.k = "zero"
         THEN IF a.k = "zero" THEN NaN ELSE Inf(a.s)
    ELSE IF a.k = "zero" THEN Zero
    ELSE LET N == a.m * 2^(MantBits + 2)
         IN  Normalize(a.s * b.s, N \div b.m, a.e - b.e - (MantBits + 2),
                       N % b.m # 0)

Add(a, b) ==
    IF a.k = "nan" \/ b.k = "nan" THEN NaN
    ELSE IF a.k = "inf"
         THEN IF b.k = "inf" /\ b.s # a.s THEN NaN ELSE a
    ELSE IF b.k = "inf" THEN b
    ELSE IF a.k = "zero" THEN b
    ELSE IF b.k = "zero" THEN a
    ELSE LET hi == IF a.e >= b.e THEN a ELSE b
             lo == IF a.e >= b.e THEN b ELSE a
             d == hi.e - lo.e
         IN  IF d > MantBits + 2 THEN hi
             ELSE LET M == hi.s * hi.m * 2^d + lo.s * lo.m
                  IN  IF M = 0 THEN Zero
                      ELSE Normalize(IF M < 0 THEN -1 ELSE 1, IAbs(M), lo.e,
                                     FALSE)

Sub(a, b) == Add(a, Neg(b))

\* the C++ comparisons: every comparison with a NaN is false
Eq(a, b) == a.k # "nan" /\ a = b

IsNegative(d) == d.k \in {"fin", "inf"} /\ d.s = -1

Lt(a, b) == a.k # "nan" /\ b.k # "nan" /\ a # b /\ IsNegative(Sub(a, b))

Gt(a, b) == Lt(b, a)

Le(a, b) == Lt(a, b) \/ Eq(a, b)

Ge(a, b) == Le(b, a)

Ratio(n, d) == Div(FromInt(n), FromInt(d))

\* log2 of a float: exact at the powers of two, linear in between
Log2(x) ==
    IF x.k = "nan" THEN NaN
    ELSE IF x.k = "zero" THEN NInf
    ELSE IF x.s = -1 THEN NaN
    ELSE IF x.k = "inf" THEN PInf
    ELSE LET f == x.m - 2^(MantBits - 1)
         IN  Add(FromInt(x.e + MantBits - 1),
                 IF f = 0 THEN Zero
                 ELSE Normalize(1, f, -(MantBits - 1), FALSE))

\* 2^y: exact at the integers, linear in between
Exp2(y) ==
    IF y.k = "nan" THEN NaN
    ELSE IF y.k = "inf" THEN (IF y.s = 1 THEN PInf ELSE Zero)
    ELSE IF y.k = "zero" THEN One
    ELSE IF y.e >= 0
         THEN Normalize(1, 1, y.s * y.m * 2^y.e, FALSE)
    ELSE IF -y.e > 2 * MantBits THEN One
    ELSE LET D == 2^(-y.e)
             n == y.s * y.m
             fl == n \div D
             R == n % D
         IN  Normalize(1, D + R, fl + y.e, FALSE)

Ln2 == Ratio(693147, 1000000)

Log2E == Ratio(1442695, 1000000)

Log(x) == Mul(Log2(x), Ln2)

Exp(x) == Exp2(Mul(x, Log2E))

\* pow(x, y) of <cmath>
Pow(x, y) ==
    IF y.k = "zero" THEN One
    ELSE IF x = One THEN One
    ELSE IF x.k = "nan" \/ y.k = "nan" THEN NaN
    ELSE IF y = One THEN x
    ELSE IF x.k = "zero" THEN (IF y.s = 1 THEN Zero ELSE PInf)
    ELSE IF x.s = -1 THEN NaN
    ELSE Exp2(Mul(y, Log2(x)))

---------------------------------------------------------------------------
(***************************************************************************)
(* Inputs: configurations, metadata, scores.                               *)
(***************************************************************************)
\* config.sigmoid
Sigmoids == {Neg(One), Zero, One}

\* config.lambdarank_eta
Etas == {One}

\* config.objective_seed
Seeds == {0}

\* kMinScore: the score of a document that takes no part in the ranking
kMinScore == NInf

\* the scores a caller passes for a document
ScoreValues == {kMinScore, Zero, One}

\* what a read past the end of a vector can return
Garbage == {Zero, One}

\* the weight of every document, when the metadata has weights
WeightValue == FromInt(2)

Uninit == [k |-> "uninit", s |-> 1, m |-> 0, e |-> 0]

\* a pointer to an array: null, or the array
Nullptr == [null |-> TRUE, at |-> <<>>]

Ptr(arr) == [null |-> FALSE, at |-> arr]

\* c_0 + ... + c_{n-1}
RECURSIVE SumTo(_, _)
SumTo(cs, n) == IF n = 0 THEN 0 ELSE SumTo(cs, n - 1) + cs[n - 1]

\* query sizes <<c_0, ..., c_{n-1}>> of a data set
QuerySizes == {cs \in UNION {[0..(n - 1) -> 0..MaxData] : n \in 1..MaxQueries} :
                 SumTo(cs, Cardinality(DOMAIN cs)) <= MaxData}

\* the metadata of a data set: labels, optional weights, query boundaries
\* (absent when the data set has no query information)
MetadataOf(cs, lab, w, hasq) ==
    LET n == Cardinality(DOMAIN cs)
        total == SumTo(cs, n)
    IN  [num_data |-> total,
         label |-> lab,
         weights |-> IF w THEN Ptr([d \in 0..(total - 1) |-> WeightValue])
                     ELSE Nullptr,
         query_boundaries |->
             IF hasq THEN Ptr([i \in 0..n |-> SumTo(cs, i)]) ELSE Nullptr,
         num_queries |-> IF hasq THEN n ELSE 0]

\* the data sets Init is called with
Metadatas ==
    UNION {{MetadataOf(cs, lab, w, TRUE) :
              lab \in [0..(SumTo(cs, Cardinality(DOMAIN cs)) - 1) -> 0..MaxLabel],
              w \in BOOLEAN} : cs \in QuerySizes}
    \cup {MetadataOf([i \in {0} |-> 1], [d \in {0} |-> 0], FALSE, FALSE)}

\* the data sets of one query
QueryMetadatas ==
    UNION {{MetadataOf([i \in {0} |-> cnt], lab, w, TRUE) :
              lab \in [0..(cnt - 1) -> 0..MaxLabel], w \in BOOLEAN} :
           cnt \in 0..MaxCnt}

---------------------------------------------------------------------------
(***************************************************************************)
(* State.                                                                  *)
(***************************************************************************)
VARIABLES
    objective,            \* the class of the engine: "lambdarank", "rank_xendcg"
    phase,                \* "constructed", "ready", "parallel", "updated",
                          \* "crashed"
    \* RankingObjective
    seed_, num_queries_, num_data_, label_, weights_, query_boundaries_,
    \* LambdarankNDCG
    sigmoid_, norm_, truncation_level_, unbiased_, eta_, num_threads_,
    inverse_max_dcgs_,
    min_sigmoid_input_, max_sigmoid_input_, sigmoid_table_idx_factor_,
    sigmoid_table_,       \* the steepness its entries were computed with, and
                          \* their number; entry i is SigmoidEntry(i)
    i_biases_pow_, j_biases_pow_, i_costs_, j_costs_,
    i_costs_buffer_, j_costs_buffer_,
    \* RankXENDCG
    rands_,
    \* one GetGradients call
    score,                \* score[q]: the caller's scores of query q, empty
                          \* until the loop body of q reads them
    gradients, hessians,  \* the caller's output arrays
    iter,                 \* iter[q]: "pending", "running", "done"
    thread,               \* thread[t]: the query thread t works on, or -1
    \* history
    inits,                \* Init calls made on the engine
    calls,                \* GetGradients calls begun
    updates,              \* bias updates run in the current call
    trace                 \* trace[q]: what the computation of q did

config_vars == <<objective, seed_, sigmoid_, norm_, truncation_level_,
                 unbiased_, eta_, num_threads_>>

metadata_vars == <<num_queries_, num_data_, label_, weights_,
                   query_boundaries_>>

table_vars == <<inverse_max_dcgs_, min_sigmoid_input_, max_sigmoid_input_,
                sigmoid_table_idx_factor_, sigmoid_table_>>

bias_vars == <<i_biases_pow_, j_biases_pow_, i_costs_, j_costs_>>

buffer_vars == <<i_costs_buffer_, j_costs_buffer_>>

call_vars == <<score, gradients, hessians, iter, thread>>

vars == <<phase, config_vars, metadata_vars, table_vars, bias_vars,
          buffer_vars, rands_, call_vars, inits, calls, updates, trace>>

Queries == 0..(num_queries_ - 1)

Threads == 0..(OmpMaxThreads - 1)

\* the documents of query q are start..start+cnt-1
QueryStart(q) == query_boundaries_.at[q]

QueryCnt(q) == query_boundaries_.at[q + 1] - query_boundaries_.at[q]

---------------------------------------------------------------------------
(***************************************************************************)
(* DCGCalculator and the label gains.                                      *)
(***************************************************************************)
\* label_gain_ after DCGCalculator::DefaultLabelGain: 2^i - 1
LabelGain(l) == FromInt(2^l - 1)

\* DCGCalculator::GetDiscount: 1 / log2(2 + i)
GetDiscount(i) == Div(One, Log2(FromInt(2 + i)))

\* the labels lab[0..num-1] in descending order
SortedLabels(lab, num) ==
    [r \in 0..(num - 1) |->
        lab[CHOOSE a \in 0..(num - 1) :
              Cardinality({b \in 0..(num - 1) :
                  lab[b] > lab[a] \/ (lab[b] = lab[a] /\ b < a)}) = r]]

RECURSIVE SumDCG(_, _, _, _)
SumDCG(sorted, n, i, ret) ==
    IF i >= n THEN ret
    ELSE SumDCG(sorted, n, i + 1,
                Add(ret, Mul(GetDiscount(i), LabelGain(sorted[i]))))

\* DCGCalculator::CalMaxDCGAtK: the DCG of the best ordering, cut at k
CalMaxDCGAtK(k, lab, num) ==
    SumDCG(SortedLabels(lab, num), IF k < num THEN k ELSE num, 0, Zero)

---------------------------------------------------------------------------
(***************************************************************************)
(* LambdarankNDCG: the sigmoid table.                                      *)
(***************************************************************************)
\* _sigmoid_bins
SigmoidBins == 1048576

\* the initial values of min_sigmoid_input_ and max_sigmoid_input_
MinSigmoidInput == -50

MaxSigmoidInput == 50

\* static_cast<size_t> of a float that is not negative
ToIndex(x) == IF x.k # "fin" THEN 0
              ELSE IF x.e >= 0 THEN x.m * 2^x.e
              ELSE IF -x.e >= 30 THEN 0
              ELSE x.m \div 2^(-x.e)

\* sigmoid_table_[i], as ConstructSigmoidTable computed it
SigmoidEntry(i) ==
    LET sc == Add(Div(FromInt(i), sigmoid_table_.factor), sigmoid_table_.min)
    IN  Div(One, Add(One, Exp(Mul(sc, sigmoid_table_.sigmoid))))

GetSigmoid(sc) ==
    IF Le(sc, min_sigmoid_input_) THEN SigmoidEntry(0)
    ELSE IF Ge(sc, max_sigmoid_input_) THEN SigmoidEntry(SigmoidBins - 1)
    ELSE SigmoidEntry(ToIndex(Mul(Sub(sc, min_sigmoid_input_),
                                  sigmoid_table_idx_factor_)))

---------------------------------------------------------------------------
(***************************************************************************)
(* LambdarankNDCG::GetGradientsForOneQuery.                                *)
(***************************************************************************)
\* std::stable_sort of 0..cnt-1 by score, descending: a comes before b
SortsBefore(sc, a, b) ==
    Gt(sc[a], sc[b]) \/ (~Gt(sc[b], sc[a]) /\ a < b)

SortedIdx(sc, cnt) ==
    [r \in 0..(cnt - 1) |->
        CHOOSE a \in 0..(cnt - 1) :
            Cardinality({b \in 0..(cnt - 1) : b # a /\ SortsBefore(sc, b, a)}) = r]

\* the pairs (i, j) of ranks of two loops without a truncation level
RECURSIVE UntruncatedPairs(_, _, _)
UntruncatedPairs(cnt, i, j) ==
    IF ~(i < cnt - 1) THEN <<>>
    ELSE IF ~(j < cnt) THEN UntruncatedPairs(cnt, i + 1, i + 2)
    ELSE <<<<i, j>>>> \o UntruncatedPairs(cnt, i, j + 1)

\* the pairs (i, j) of ranks the two loops visit from (i, j) on, in order
RECURSIVE LoopPairs(_, _, _)
LoopPairs(cnt, i, j) ==
    IF ~(i < cnt - 1 /\ i < truncation_level_) THEN <<>>
    ELSE IF ~(j < cnt) THEN LoopPairs(cnt, i + 1, i + 2)
    ELSE <<<<i, j>>>> \o LoopPairs(cnt, i, j + 1)

\* the rank of the more relevant document of the pair of ranks (i, j)
HighRank(lab, sorted_idx, i, j) ==
    IF lab[sorted_idx[i]] > lab[sorted_idx[j]] THEN i ELSE j

LowRank(lab, sorted_idx, i, j) ==
    IF lab[sorted_idx[i]] > lab[sorted_idx[j]] THEN j ELSE i

\* the discount of the rank of the more relevant document alone
HighDiscount(high_rank, low_rank) == GetDiscount(high_rank)

PairedDiscount(high_rank, low_rank) ==
    FAbs(Sub(GetDiscount(high_rank), GetDiscount(low_rank)))

\* delta_pair_NDCG, regularized by the score distance
DeltaPairNDCG(dcg_gap, paired_discount, inverse_max_dcg, delta_score, best_score, worst_score) ==
    LET d == Mul(Mul(dcg_gap, paired_discount), inverse_max_dcg)
    IN  IF (norm_ \/ unbiased_) /\ ~Eq(best_score, worst_score)
        THEN Div(d, Add(Ratio(1, 100), FAbs(delta_score)))
        ELSE d

\* vec[rank]; a read past the end of the vector returns g
ReadAt(vec, rank, g) == IF rank \in DOMAIN vec THEN vec[rank] ELSE g

\* the cost, lambda and hessian of a pair, lines 300-364, from the sigmoid
\* p of the score difference and the two bias powers read
PairValues(p, delta_pair_NDCG, i_bias, j_bias) ==
    [p_cost |-> Mul(Log(Div(One, Sub(One, p))), delta_pair_NDCG),
     p_lambda |->
         Mul(p, Div(Div(Mul(Neg(sigmoid_), delta_pair_NDCG), i_bias), j_bias)),
     p_hessian |->
         Mul(Mul(p, Sub(One, p)),
             Div(Div(Mul(Mul(sigmoid_, sigmoid_), delta_pair_NDCG), i_bias),
                 j_bias)),
     i_bias |-> i_bias, j_bias |-> j_bias]

\* the pair of the documents high and low at the ranks high_rank and low_rank
PairOf(c, high_rank, low_rank, high, low, delta_score) ==
    PairValues(GetSigmoid(delta_score),
               DeltaPairNDCG(Sub(LabelGain(c.label[high]), LabelGain(c.label[low])),
                             PairedDiscount(high_rank, low_rank),
                             c.inverse_max_dcg, delta_score,
                             c.best_score, c.worst_score),
               ReadAt(i_biases_pow_, high_rank, c.g),
               ReadAt(j_biases_pow_, low_rank, c.g))

\* the updates of the lambdas, hessians and cost buffers by a pair
PairUpdate(acc, c, i, j, high_rank, low_rank, high, low, v, i_in, j_in) ==
    [lambdas |->
         [d \in DOMAIN acc.lambdas |->
             IF d = high
             THEN Add(IF d = low THEN Sub(acc.lambdas[d], v.p_lambda)
                      ELSE acc.lambdas[d], v.p_lambda)
             ELSE IF d = low THEN Sub(acc.lambdas[d], v.p_lambda)
             ELSE acc.lambdas[d]],
     hessians |->
         [d \in DOMAIN acc.hessians |->
             IF d = high \/ d = low THEN Add(acc.hessians[d], v.p_hessian)
             ELSE acc.hessians[d]],
     sum_lambdas |-> Sub(acc.sum_lambdas, Mul(FromInt(2), v.p_lambda)),
     i_buf |-> IF unbiased_ /\ i_in
               THEN [acc.i_buf EXCEPT ![high_rank] = Add(@, Div(v.p_cost, v.j_bias))]
               ELSE acc.i_buf,
     j_buf |-> IF unbiased_ /\ j_in
               THEN [acc.j_buf EXCEPT ![low_rank] = Add(@, Div(v.p_cost, v.i_bias))]
               ELSE acc.j_buf,
     \* what the pairs of the query add to the costs of the ranks
     i_cost |-> IF unbiased_ /\ high_rank \in DOMAIN acc.i_cost
                THEN [acc.i_cost EXCEPT ![high_rank] = Add(@, Div(v.p_cost, v.j_bias))]
                ELSE acc.i_cost,
     j_cost |-> IF unbiased_ /\ low_rank \in DOMAIN acc.j_cost
                THEN [acc.j_cost EXCEPT ![low_rank] = Add(@, Div(v.p_cost, v.i_bias))]
                ELSE acc.j_cost,
     oob_read |-> \/ acc.oob_read
                  \/ high_rank \notin DOMAIN i_biases_pow_
                  \/ low_rank \notin DOMAIN j_biases_pow_,
     oob_write |-> acc.oob_write \/ (unbiased_ /\ (~i_in \/ ~j_in)),
     cost_writes |-> acc.cost_writes \/ unbiased_,
     pairs |-> Append(acc.pairs,
                      [i |-> i, j |-> j, high_rank |-> high_rank,
                       low_rank |-> low_rank, high |-> high, low |-> low,
                       p_lambda |-> v.p_lambda, p_hessian |-> v.p_hessian])]

PairAt(acc, c, i, j, high_rank, low_rank, high, low) ==
    PairUpdate(acc, c, i, j, high_rank, low_rank, high, low,
               PairOf(c, high_rank, low_rank, high, low,
                      Sub(c.score[high], c.score[low])),
               c.has_buffer /\ high_rank \in DOMAIN acc.i_buf,
               c.has_buffer /\ low_rank \in DOMAIN acc.j_buf)

PairRanks(acc, c, i, j, high_rank, low_rank) ==
    PairAt(acc, c, i, j, high_rank, low_rank,
           c.sorted_idx[high_rank], c.sorted_idx[low_rank])

\* the body of the inner loop for the ranks (i, j); c is the query and the
\* thread, acc the state of the computation
PairStep(acc, c, i, j) ==
    IF Eq(c.score[c.sorted_idx[i]], kMinScore) THEN acc
    ELSE IF Eq(c.score[c.sorted_idx[j]], kMinScore) THEN acc
    ELSE IF c.label[c.sorted_idx[i]] = c.label[c.sorted_idx[j]] THEN acc
    ELSE PairRanks(acc, c, i, j, HighRank(c.label, c.sorted_idx, i, j),
                   LowRank(c.label, c.sorted_idx, i, j))

RECURSIVE PairLoop(_, _, _, _)
PairLoop(ps, k, acc, c) ==
    IF k > Len(ps) THEN acc
    ELSE PairLoop(ps, k + 1, PairStep(acc, c, ps[k][1], ps[k][2]), c)

\* the normalization of the lambdas and hessians of a query (norm_)
Normalized(acc, cnt) ==
    IF norm_ /\ Gt(acc.sum_lambdas, Zero)
    THEN LET norm_factor ==
                 Div(Log2(Add(One, acc.sum_lambdas)), acc.sum_lambdas)
         IN  [acc EXCEPT
                !.lambdas = [d \in 0..(cnt - 1) |-> Mul(acc.lambdas[d], norm_factor)],
                !.hessians = [d \in 0..(cnt - 1) |-> Mul(acc.hessians[d], norm_factor)]]
    ELSE acc

\* the query as the loops see it: the scores and labels, the order by score,
\* the best and the worst score (lines 184-204)
QueryContext(query_id, cnt, lab, sc, tid, g, sorted_idx) ==
    LET worst_idx == IF cnt - 1 > 0 /\ Eq(sc[sorted_idx[cnt - 1]], kMinScore)
                     THEN cnt - 2 ELSE cnt - 1
    IN  [score |-> sc, label |-> lab, sorted_idx |-> sorted_idx,
         inverse_max_dcg |-> inverse_max_dcgs_[query_id],
         \* with cnt = 0 the two scores are read from an empty vector
         best_score |-> IF cnt > 0 THEN sc[sorted_idx[0]] ELSE g,
         worst_score |-> IF cnt > 0 THEN sc[sorted_idx[worst_idx]] ELSE g,
         has_buffer |-> tid \in DOMAIN i_costs_buffer_, g |-> g]

\* the lambdas and hessians set to zero (lines 176-179), the rows of the
\* cost buffers of thread tid
InitialAcc(cnt, tid) ==
    [lambdas |-> [d \in 0..(cnt - 1) |-> Zero],
     hessians |-> [d \in 0..(cnt - 1) |-> Zero],
     sum_lambdas |-> Zero,
     i_buf |-> IF tid \in DOMAIN i_costs_buffer_
               THEN i_costs_buffer_[tid] ELSE <<>>,
     j_buf |-> IF tid \in DOMAIN j_costs_buffer_
               THEN j_costs_buffer_[tid] ELSE <<>>,
     i_cost |-> [i \in 0..(truncation_level_ - 1) |-> Zero],
     j_cost |-> [i \in 0..(truncation_level_ - 1) |-> Zero],
     oob_read |-> cnt = 0,
     oob_write |-> FALSE,
     cost_writes |-> FALSE,
     pairs |-> <<>>]

\* GetGradientsForOneQuery of LambdarankNDCG, run by thread tid on a query
\* of cnt documents with labels lab and scores sc; g is what the reads past
\* the end of a vector return.  The result has the lambdas and hessians, the
\* rows of the thread's cost buffers, and what the computation did.
LambdarankOneQuery(query_id, cnt, lab, sc, tid, g) ==
    Normalized(PairLoop(LoopPairs(cnt, 0, 1), 1, InitialAcc(cnt, tid),
                        QueryContext(query_id, cnt, lab, sc, tid, g,
                                     SortedIdx(sc, cnt))),
               cnt)

---------------------------------------------------------------------------
(***************************************************************************)
(* RankXENDCG::GetGradientsForOneQuery.                                    *)
(***************************************************************************)
\* kEpsilon = 1e-15f
kEpsilon == Mul(Ratio(1, 100000), Mul(Ratio(1, 100000), Ratio(1, 100000)))

\* Random: the state after one more draw, and the float in [0, 1) drawn
RandNext(x) == (5 * x + 3) % 16

NextFloat(x) == Ratio(RandNext(x), 16)

RECURSIVE RandAfter(_, _)
RandAfter(x, n) == IF n = 0 THEN x ELSE RandAfter(RandNext(x), n - 1)

\* f[0] + ... + f[n-1], added in this order to acc
RECURSIVE FSum(_, _, _, _)
FSum(f, i, n, acc) == IF i >= n THEN acc ELSE FSum(f, i + 1, n, Add(acc, f[i]))

RECURSIVE FMax(_, _, _, _)
FMax(f, i, n, acc) ==
    IF i >= n THEN acc
    ELSE FMax(f, i + 1, n, IF Lt(acc, f[i]) THEN f[i] ELSE acc)

\* Common::Softmax
Softmax(sc, cnt) ==
    LET wmax == FMax(sc, 1, cnt, sc[0])
        ex == [i \in 0..(cnt - 1) |-> Exp(Sub(sc[i], wmax))]
        wsum == FSum(ex, 0, cnt, Zero)
    IN  [i \in 0..(cnt - 1) |-> Div(ex[i], wsum)]

Phi(l, g) == Sub(FromInt(2^l), g)

\* GetGradientsForOneQuery of RankXENDCG on a query of cnt documents, whose
\* random stream is in state x
XendcgOneQuery(cnt, lab, sc, x) ==
    IF cnt <= 1
    THEN [lambdas |-> [d \in 0..(cnt - 1) |-> Zero],
          hessians |-> [d \in 0..(cnt - 1) |-> Zero],
          rand |-> x]
    ELSE
    LET D == 0..(cnt - 1)
        rho == Softmax(sc, cnt)
        params == [i \in D |-> Phi(lab[i], NextFloat(RandAfter(x, i)))]
        sum0 == FSum(params, 0, cnt, Zero)
        inv_denominator ==
            Div(One, IF Lt(kEpsilon, sum0) THEN sum0 ELSE kEpsilon)
        term1 == [i \in D |-> Add(Mul(Neg(params[i]), inv_denominator), rho[i])]
        params1 == [i \in D |-> Div(term1[i], Sub(One, rho[i]))]
        sum_l1 == FSum(params1, 0, cnt, Zero)
        term2 == [i \in D |-> Mul(rho[i], Sub(sum_l1, params1[i]))]
        params2 == [i \in D |-> Div(term2[i], Sub(One, rho[i]))]
        sum_l2 == FSum(params2, 0, cnt, Zero)
    IN  [lambdas |->
             [i \in D |-> Add(Add(term1[i], term2[i]),
                              Mul(rho[i], Sub(sum_l2, params2[i])))],
         hessians |-> [i \in D |-> Mul(rho[i], Sub(One, rho[i]))],
         rand |-> RandAfter(x, cnt)]

---------------------------------------------------------------------------
(***************************************************************************)
(* Construction and Init.                                                  *)
(***************************************************************************)
\* omp_get_num_threads(): the size of the team of the enclosing parallel
\* region, 1 in the sequential part of the program
OmpGetNumThreads(in_parallel) == IF in_parallel THEN OmpMaxThreads ELSE 1

\* trace[q] of a query whose loop body has not run in this call
NoTrace == [tid |-> -1, cnt |-> 0, pairs |-> <<>>, lambdas |-> <<>>,
            hessians |-> <<>>, i_cost |-> <<>>, j_cost |-> <<>>,
            oob_read |-> FALSE, oob_write |-> FALSE,
            cost_writes |-> FALSE, crashed |-> FALSE, garbage |-> Zero]

NoCall ==
    /\ score = <<>> /\ gradients = <<>> /\ hessians = <<>>
    /\ iter = <<>> /\ thread = [t \in Threads |-> -1]
    /\ calls = 0 /\ updates = 0 /\ trace = <<>>

NoMetadata ==
    /\ num_queries_ = 0 /\ num_data_ = 0 /\ label_ = <<>>
    /\ weights_ = Nullptr /\ query_boundaries_ = Nullptr

\* LambdarankNDCG(config), run by the main thread outside any parallel region
ConstructLambdarank ==
    /\ objective = "lambdarank"
    /\ seed_ \in Seeds
    /\ sigmoid_ \in Sigmoids
    /\ norm_ \in BOOLEAN
    /\ truncation_level_ \in 1..MaxTruncation
    /\ unbiased_ \in BOOLEAN
    /\ eta_ \in Etas
    /\ sigmoid_table_ = [size |-> 0, factor |-> Uninit, min |-> Uninit,
                         sigmoid |-> Uninit]
    /\ inverse_max_dcgs_ = <<>>
    /\ IF Le(sigmoid_, Zero)
       THEN phase = "fatal" /\ num_threads_ = 0
       ELSE phase = "constructed" /\ num_threads_ = OmpGetNumThreads(FALSE)

\* RankXENDCG(config); the members of LambdarankNDCG do not exist and keep
\* one value
ConstructXendcg ==
    /\ objective = "rank_xendcg"
    /\ seed_ \in Seeds
    /\ sigmoid_ = One /\ norm_ = FALSE /\ truncation_level_ = 1
    /\ unbiased_ = FALSE /\ eta_ = Zero /\ num_threads_ = 0
    /\ sigmoid_table_ = [size |-> 0, factor |-> Uninit, min |-> Uninit,
                         sigmoid |-> Uninit]
    /\ inverse_max_dcgs_ = <<>>
    /\ phase = "constructed"

\* LambdarankNDCG(strs): the constructor from strings initializes no member
\* of LambdarankNDCG and makes no check; sigmoid_, norm_, truncation_level_,
\* unbiased_, eta_ and num_threads_ hold indeterminate values, here any of
\* the values a configuration can give them
ConstructLambdarankFromStrings ==
    /\ objective = "lambdarank"
    /\ seed_ = 0
    /\ sigmoid_ \in Sigmoids
    /\ norm_ \in BOOLEAN
    /\ truncation_level_ \in 1..MaxTruncation
    /\ unbiased_ \in BOOLEAN
    /\ eta_ \in Etas
    /\ num_threads_ \in 0..OmpMaxThreads
    /\ sigmoid_table_ = [size |-> 0, factor |-> Uninit, min |-> Uninit,
                         sigmoid |-> Uninit]
    /\ inverse_max_dcgs_ = <<>>
    /\ phase = "constructed"

\* RankXENDCG(strs)
ConstructXendcgFromStrings ==
    /\ objective = "rank_xendcg"
    /\ seed_ = 0
    /\ sigmoid_ = One /\ norm_ = FALSE /\ truncation_level_ = 1
    /\ unbiased_ = FALSE /\ eta_ = Zero /\ num_threads_ = 0
    /\ sigmoid_table_ = [size |-> 0, factor |-> Uninit, min |-> Uninit,
                         sigmoid |-> Uninit]
    /\ inverse_max_dcgs_ = <<>>
    /\ phase = "constructed"

\* the members no constructor sets, and the engine before its first call
AfterConstruction ==
    /\ min_sigmoid_input_ = FromInt(MinSigmoidInput)
    /\ max_sigmoid_input_ = FromInt(MaxSigmoidInput)
    /\ sigmoid_table_idx_factor_ = Uninit
    /\ i_biases_pow_ = <<>> /\ j_biases_pow_ = <<>>
    /\ i_costs_ = <<>> /\ j_costs_ = <<>>
    /\ i_costs_buffer_ = <<>> /\ j_costs_buffer_ = <<>>
    /\ rands_ = <<>>
    /\ NoMetadata
    /\ NoCall
    /\ inits = 0

\* an engine constructed from a configuration
Init ==
    /\ ConstructLambdarank \/ ConstructXendcg
    /\ AfterConstruction

\* the labels and scores of the documents of a query
SliceOf(arr, start, cnt) == [d \in 0..(cnt - 1) |-> arr[start + d]]

\* inverse_max_dcgs_ as LambdarankNDCG::Init fills it
InverseMaxDCGs(md) ==
    [q \in 0..(md.num_queries - 1) |->
        LET start == md.query_boundaries.at[q]
            cnt == md.query_boundaries.at[q + 1] - start
            max_dcg == CalMaxDCGAtK(truncation_level_,
                                    SliceOf(md.label, start, cnt), cnt)
        IN  IF Gt(max_dcg, Zero) THEN Div(One, max_dcg) ELSE max_dcg]

\* min_sigmoid_input_ as ConstructSigmoidTable sets it
NewMinSigmoidInput == Div(Div(min_sigmoid_input_, sigmoid_), FromInt(2))

\* sigmoid_table_idx_factor_ for the bounds min and max
IdxFactor(min, max) == Div(FromInt(SigmoidBins), Sub(max, min))

ConstructSigmoidTable ==
    LET min == NewMinSigmoidInput
        max == Neg(min)
        factor == IdxFactor(min, max)
    IN  /\ min_sigmoid_input_' = min
        /\ max_sigmoid_input_' = max
        /\ sigmoid_table_idx_factor_' = factor
        /\ sigmoid_table_' = [size |-> SigmoidBins, factor |-> factor,
                              min |-> min, sigmoid |-> sigmoid_]

\* vec with n more elements v at its end (emplace_back, n times)
Extended(vec, n, v) ==
    LET len == Cardinality(DOMAIN vec)
    IN  [i \in 0..(len + n - 1) |-> IF i < len THEN vec[i] ELSE v]

InitPositionBiasesAndGradients ==
    LET T == 0..(truncation_level_ - 1)
    IN  /\ i_biases_pow_' = [i \in T |-> One]
        /\ j_biases_pow_' = [i \in T |-> One]
        /\ i_costs_' = [i \in T |-> Zero]
        /\ j_costs_' = [i \in T |-> Zero]
        /\ i_costs_buffer_' =
               Extended(i_costs_buffer_, num_threads_, [i \in T |-> Zero])
        /\ j_costs_buffer_' =
               Extended(j_costs_buffer_, num_threads_, [i \in T |-> Zero])

\* RankingObjective::Init: the metadata is taken over; without query
\* boundaries this is a fatal error
RankingObjectiveInit(md) ==
    /\ num_data_' = md.num_data
    /\ label_' = md.label
    /\ weights_' = md.weights
    /\ query_boundaries_' = md.query_boundaries
    /\ num_queries_' = IF md.query_boundaries.null THEN num_queries_
                       ELSE md.num_queries

\* rands_ with the streams of n more queries at its end (emplace_back)
Seeded(vec, n) ==
    LET len == Cardinality(DOMAIN vec)
    IN  [i \in 0..(len + n - 1) |->
            IF i < len THEN vec[i] ELSE (seed_ + (i - len)) % 16]

\* Init(metadata, num_data) of the engine with the metadata md
InitWith(md) ==
    /\ RankingObjectiveInit(md)
    /\ inits' = inits + 1
    /\ IF md.query_boundaries.null
       THEN /\ phase' = "fatal"
            /\ UNCHANGED <<table_vars, bias_vars, buffer_vars, rands_,
                           call_vars, trace>>
       ELSE /\ phase' = "ready"
            /\ IF objective = "lambdarank"
               THEN /\ inverse_max_dcgs_' = InverseMaxDCGs(md)
                    /\ ConstructSigmoidTable
                    /\ InitPositionBiasesAndGradients
                    /\ UNCHANGED rands_
               ELSE /\ rands_' = Seeded(rands_, md.num_queries)
                    /\ UNCHANGED <<table_vars, bias_vars, buffer_vars>>
            /\ score' = [q \in 0..(md.num_queries - 1) |-> <<>>]
            /\ gradients' = [d \in 0..(md.num_data - 1) |-> Uninit]
            /\ hessians' = [d \in 0..(md.num_data - 1) |-> Uninit]
            /\ iter' = [q \in 0..(md.num_queries - 1) |-> "done"]
            /\ trace' = [q \in 0..(md.num_queries - 1) |-> NoTrace]
            /\ UNCHANGED thread
    /\ UNCHANGED <<config_vars, calls, updates>>

\* the first Init of the engine
InitObjective ==
    /\ phase = "constructed"
    /\ \E md \in Metadatas : InitWith(md)

\* the metadata the engine holds
CurrentMetadata ==
    [num_data |-> num_data_, label |-> label_, weights |-> weights_,
     query_boundaries |-> query_boundaries_, num_queries |-> num_queries_]

\* Init is called again, between two GetGradients calls, with the same
\* metadata
InitAgain ==
    /\ phase = "ready"
    /\ inits < MaxInits
    /\ InitWith(CurrentMetadata)

---------------------------------------------------------------------------
(***************************************************************************)
(* GetGradients: the parallel loop over the queries, then the bias update. *)
(***************************************************************************)
\* the caller enters GetGradients with a score vector and two output arrays
GetGradientsBegin ==
    /\ phase = "ready"
    /\ calls < MaxCalls
    /\ phase' = "parallel"
    /\ calls' = calls + 1
    /\ updates' = 0
    /\ score' = [q \in Queries |-> <<>>]
    /\ gradients' = [d \in 0..(num_data_ - 1) |-> Uninit]
    /\ hessians' = [d \in 0..(num_data_ - 1) |-> Uninit]
    /\ iter' = [q \in Queries |-> "pending"]
    /\ trace' = [q \in Queries |-> NoTrace]
    /\ UNCHANGED <<inits, config_vars, metadata_vars, table_vars, bias_vars,
                   buffer_vars, rands_, thread>>

\* schedule(guided): a thread that is free takes the next iteration
NextIteration == CHOOSE q \in Queries :
                    iter[q] = "pending" /\ \A p \in Queries : p < q => iter[p] # "pending"

TakeQuery(t) ==
    /\ phase \in {"parallel", "updated"}
    /\ thread[t] = -1
    /\ \E q \in Queries : iter[q] = "pending"
    /\ LET q == NextIteration
       IN  /\ thread' = [thread EXCEPT ![t] = q]
           /\ iter' = [iter EXCEPT ![q] = "running"]
           /\ \E sc \in [0..(QueryCnt(q) - 1) -> ScoreValues] :
                 score' = [score EXCEPT ![q] = sc]
    /\ UNCHANGED <<inits, phase, config_vars, metadata_vars, table_vars, bias_vars,
                   buffer_vars, rands_, gradients, hessians, calls, updates,
                   trace>>

\* lines 57-64: the weights multiply the lambdas and hessians of a query
Weighted(arr, start, cnt, vals) ==
    [d \in DOMAIN arr |->
        IF d >= start /\ d < start + cnt
        THEN IF weights_.null THEN vals[d - start]
             ELSE Mul(vals[d - start], weights_.at[d])
        ELSE arr[d]]

\* what thread t computes for the query it holds, with g read past the ends
XendcgResult(r) ==
    [lambdas |-> r.lambdas, hessians |-> r.hessians, rand |-> r.rand,
     i_cost |-> <<>>, j_cost |-> <<>>, oob_read |-> FALSE, oob_write |-> FALSE, cost_writes |-> FALSE,
     pairs |-> <<>>]

QueryResult(t, g) ==
    LET q == thread[t]
        cnt == QueryCnt(q)
        lab == SliceOf(label_, QueryStart(q), cnt)
    IN  IF objective = "lambdarank"
        THEN LambdarankOneQuery(q, cnt, lab, score[q], t, g)
        ELSE XendcgResult(XendcgOneQuery(cnt, lab, score[q], rands_[q]))

\* the values a read past the end can return; with 0 < cnt <= the size of
\* the bias vectors no read of the query is past an end
GarbageOf(t) ==
    IF /\ objective = "lambdarank"
       /\ \/ QueryCnt(thread[t]) = 0
          \/ QueryCnt(thread[t]) - 1 \notin DOMAIN i_biases_pow_
    THEN Garbage ELSE {Zero}

\* what the computation r of the query of thread t did; garbage is what its
\* reads past the end of a vector returned, if it made any
TraceOf(t, r, g) ==
    [tid |-> t, cnt |-> QueryCnt(thread[t]), pairs |-> r.pairs,
     lambdas |-> r.lambdas, hessians |-> r.hessians,
     i_cost |-> r.i_cost, j_cost |-> r.j_cost,
     oob_read |-> r.oob_read, oob_write |-> r.oob_write,
     cost_writes |-> r.cost_writes, crashed |-> FALSE,
     garbage |-> IF r.oob_read THEN g ELSE Zero]

\* the computation of the query of thread t ended in a crash: it has no
\* results
CrashTraceOf(t, r) ==
    [NoTrace EXCEPT !.tid = t, !.cnt = QueryCnt(thread[t]),
                    !.oob_read = r.oob_read, !.oob_write = r.oob_write,
                    !.cost_writes = r.cost_writes, !.crashed = TRUE]

\* the loop body of one query, lines 53-64, run by thread t to its end with
\* the result r.  A write past the end of the cost buffers changes nothing
\* the model holds.
FinishQuery(t, q, r, g) ==
    /\ gradients' = Weighted(gradients, QueryStart(q), QueryCnt(q), r.lambdas)
    /\ hessians' = Weighted(hessians, QueryStart(q), QueryCnt(q), r.hessians)
    /\ IF objective = "lambdarank"
       THEN /\ i_costs_buffer_' =
                  IF t \in DOMAIN i_costs_buffer_
                  THEN [i_costs_buffer_ EXCEPT ![t] = r.i_buf]
                  ELSE i_costs_buffer_
            /\ j_costs_buffer_' =
                  IF t \in DOMAIN j_costs_buffer_
                  THEN [j_costs_buffer_ EXCEPT ![t] = r.j_buf]
                  ELSE j_costs_buffer_
            /\ UNCHANGED rands_
       ELSE /\ rands_' = [rands_ EXCEPT ![q] = r.rand]
            /\ UNCHANGED buffer_vars
    /\ iter' = [iter EXCEPT ![q] = "done"]
    /\ trace' = [trace EXCEPT ![q] = TraceOf(t, r, g)]

RunQuery(t) ==
    /\ phase \in {"parallel", "updated"}
    /\ thread[t] # -1
    /\ \E g \in GarbageOf(t) : FinishQuery(t, thread[t], QueryResult(t, g), g)
    /\ thread' = [thread EXCEPT ![t] = -1]
    /\ UNCHANGED <<inits, phase, config_vars, metadata_vars, table_vars, bias_vars,
                   score, calls, updates>>

\* the computation r makes an access past the end of a vector
AbortQuery(t, r, g) ==
    /\ r.oob_read \/ r.oob_write
    /\ trace' = [trace EXCEPT ![thread[t]] = CrashTraceOf(t, r)]

\* the loop body of one query makes an access past the end of a vector and
\* the process dies of it
CrashQuery(t) ==
    /\ phase \in {"parallel", "updated"}
    /\ thread[t] # -1
    /\ \E g \in GarbageOf(t) : AbortQuery(t, QueryResult(t, g), g)
    /\ phase' = "crashed"
    /\ UNCHANGED <<inits, config_vars, metadata_vars, table_vars, bias_vars,
                   buffer_vars, rands_, call_vars, calls, updates>>

\* a parallel loop whose end does not wait for the iterations
NoBarrier == TRUE

\* the implicit barrier at the end of the parallel loop: every iteration is
\* done
Barrier == \A q \in Queries : iter[q] = "done"

\* i_costs_ after the rows of the buffers are added to it, thread by thread
RECURSIVE Accumulated(_, _, _)
Accumulated(costs, buffer, i) ==
    IF i >= num_threads_ THEN costs
    ELSE Accumulated([j \in DOMAIN costs |-> Add(costs[j], buffer[i][j])],
                     buffer, i + 1)

\* the bias power of every rank: pow(cost / cost[0], eta_)
BiasesPow(costs) ==
    [i \in 0..(truncation_level_ - 1) |-> Pow(Div(costs[i], costs[0]), eta_)]

UpdatePositionBiasesAndGradients ==
    /\ phase = "parallel"
    /\ objective = "lambdarank" /\ unbiased_
    /\ Barrier
    /\ LET T == 0..(truncation_level_ - 1)
       IN  /\ i_biases_pow_' = BiasesPow(Accumulated(i_costs_, i_costs_buffer_, 0))
           /\ j_biases_pow_' = BiasesPow(Accumulated(j_costs_, j_costs_buffer_, 0))
           /\ i_costs_buffer_' =
                  [i \in DOMAIN i_costs_buffer_ |->
                      IF i < num_threads_ THEN [j \in T |-> Zero]
                      ELSE i_costs_buffer_[i]]
           /\ j_costs_buffer_' =
                  [i \in DOMAIN j_costs_buffer_ |->
                      IF i < num_threads_ THEN [j \in T |-> Zero]
                      ELSE j_costs_buffer_[i]]
           /\ i_costs_' = [i \in T |-> Zero]
           /\ j_costs_' = [i \in T |-> Zero]
    /\ phase' = "updated"
    /\ updates' = updates + 1
    /\ UNCHANGED <<inits, config_vars, metadata_vars, table_vars, rands_, call_vars,
                   calls, trace>>

\* GetGradients returns to the caller
GetGradientsReturn ==
    /\ IF objective = "lambdarank" /\ unbiased_
       THEN phase = "updated"
       ELSE phase = "parallel"
    /\ Barrier
    /\ phase' = "ready"
    /\ UNCHANGED <<inits, config_vars, metadata_vars, table_vars, bias_vars,
                   buffer_vars, rands_, call_vars, calls, updates, trace>>

Next ==
    \/ InitObjective
    \/ GetGradientsBegin
    \/ \E t \in Threads : TakeQuery(t)
    \/ \E t \in Threads : RunQuery(t)
    \/ \E t \in Threads : CrashQuery(t)
    \/ UpdatePositionBiasesAndGradients
    \/ GetGradientsReturn

Spec == Init /\ [][Next]_vars

---------------------------------------------------------------------------
(***************************************************************************)
(* One query under the pairwise computer.  GetGradientsForOneQuery is a    *)
(* function of the configuration, the labels and scores of the query and   *)
(* the bias powers of the engine.  InitQuery is a lambdarank engine that   *)
(* holds a data set of one query of up to MaxCnt documents and enters its  *)
(* last GetGradients call.  With unbiased_ the bias powers are the result  *)
(* of the calls before, lines 443-447: rank 0 is divided by itself, rank   *)
(* i > 0 holds pow(cost[i] / cost[0], eta_), here 1 or 2.                  *)
(***************************************************************************)
BiasPowers == {One, FromInt(2)}

BiasStates == {b \in [0..(truncation_level_ - 1) -> BiasPowers] :
                 b[0] = One /\ (~unbiased_ => \A i \in DOMAIN b : b[i] = One)}

InitQuery ==
    /\ objective = "lambdarank"
    /\ seed_ \in Seeds
    /\ sigmoid_ \in {s \in Sigmoids : Gt(s, Zero)}
    /\ norm_ \in BOOLEAN
    /\ truncation_level_ \in 1..MaxTruncation
    /\ unbiased_ \in BOOLEAN
    /\ eta_ \in Etas
    /\ num_threads_ = OmpGetNumThreads(FALSE)
    /\ phase = "ready"
    /\ \E md \in QueryMetadatas :
        /\ num_data_ = md.num_data
        /\ label_ = md.label
        /\ weights_ = md.weights
        /\ query_boundaries_ = md.query_boundaries
        /\ num_queries_ = md.num_queries
        /\ inverse_max_dcgs_ = InverseMaxDCGs(md)
    /\ LET min == Div(Div(FromInt(MinSigmoidInput), sigmoid_), FromInt(2))
           max == Neg(min)
       IN  /\ min_sigmoid_input_ = min
           /\ max_sigmoid_input_ = max
           /\ sigmoid_table_idx_factor_ = IdxFactor(min, max)
           /\ sigmoid_table_ = [size |-> SigmoidBins,
                                factor |-> IdxFactor(min, max),
                                min |-> min, sigmoid |-> sigmoid_]
    /\ i_biases_pow_ \in BiasStates
    /\ j_biases_pow_ \in BiasStates
    /\ i_costs_ = [i \in 0..(truncation_level_ - 1) |-> Zero]
    /\ j_costs_ = [i \in 0..(truncation_level_ - 1) |-> Zero]
    /\ i_costs_buffer_ = [t \in 0..(num_threads_ - 1) |->
                              [i \in 0..(truncation_level_ - 1) |-> Zero]]
    /\ j_costs_buffer_ = [t \in 0..(num_threads_ - 1) |->
                              [i \in 0..(truncation_level_ - 1) |-> Zero]]
    /\ rands_ = <<>>
    /\ score = [q \in Queries |-> <<>>]
    /\ gradients = [d \in 0..(num_data_ - 1) |-> Uninit]
    /\ hessians = [d \in 0..(num_data_ - 1) |-> Uninit]
    /\ iter = [q \in Queries |-> "done"]
    /\ thread = [t \in Threads |-> -1]
    /\ inits = 1
    /\ calls = MaxCalls - 1
    /\ updates = 0
    /\ trace = [q \in Queries |-> NoTrace]

NextQuery ==
    \/ GetGradientsBegin
    \/ \E t \in Threads : TakeQuery(t)
    \/ \E t \in Threads : RunQuery(t)
    \/ \E t \in Threads : CrashQuery(t)
    \/ UpdatePositionBiasesAndGradients
    \/ GetGradientsReturn

SpecQuery == InitQuery /\ [][NextQuery]_vars

---------------------------------------------------------------------------
(***************************************************************************)
(* The life of an engine: construction by either constructor of its class, *)
(* Init, GetGradients calls, and Init again.                               *)
(***************************************************************************)
InitLifecycle ==
    /\ \/ ConstructLambdarank
       \/ ConstructXendcg
       \/ ConstructLambdarankFromStrings
       \/ ConstructXendcgFromStrings
    /\ AfterConstruction

\* the data sets of at most one query, and the one without query information
OneQueryMetadatas == {md \in Metadatas : md.num_queries <= 1}

\* the first Init of the engine, with a data set of at most one query
InitOneQuery ==
    /\ phase = "constructed"
    /\ \E md \in OneQueryMetadatas : InitWith(md)

NextLifecycle ==
    \/ InitOneQuery
    \/ InitAgain
    \/ GetGradientsBegin
    \/ \E t \in Threads : TakeQuery(t)
    \/ \E t \in Threads : RunQuery(t)
    \/ \E t \in Threads : CrashQuery(t)
    \/ UpdatePositionBiasesAndGradients
    \/ GetGradientsReturn

SpecLifecycle == InitLifecycle /\ [][NextLifecycle]_vars

---------------------------------------------------------------------------
(***************************************************************************)
(* Properties.                                                             *)
(***************************************************************************)
Unbiased == objective = "lambdarank" /\ unbiased_

\* a GetGradients call has returned
Returned == phase = "ready" /\ calls > 0

\* the queries whose loop body ran to its end in the current call
Computed == {q \in DOMAIN trace : trace[q].tid # -1 /\ ~trace[q].crashed}

AllZero(vec) == \A i \in DOMAIN vec : vec[i] = Zero

\* no query of the current call made an access past the end of a vector
InBounds == \A q \in DOMAIN trace : ~trace[q].oob_read /\ ~trace[q].oob_write

\* C1: with unbiased correction, after every completed GetGradients call
\* i_biases_pow_[0] = 1 and j_biases_pow_[0] = 1 exactly, and every entry of
\* i_costs_, j_costs_ and of every per-thread cost buffer is zero.
C1_AnchorIsOneAndCostsCleared ==
    (Unbiased /\ Returned /\ InBounds) =>
        /\ i_biases_pow_[0] = One
        /\ j_biases_pow_[0] = One
        /\ AllZero(i_costs_) /\ AllZero(j_costs_)
        /\ \A t \in DOMAIN i_costs_buffer_ : AllZero(i_costs_buffer_[t])
        /\ \A t \in DOMAIN j_costs_buffer_ : AllZero(j_costs_buffer_[t])

\* C2: with unbiased correction, after Init and after any number of
\* GetGradients calls no entry of i_biases_pow_ or j_biases_pow_ is exactly
\* zero.
C2_NoBiasPowerIsZero ==
    (Unbiased /\ phase \in {"ready", "parallel", "updated"} /\ InBounds) =>
        \A i \in DOMAIN i_biases_pow_ :
            i_biases_pow_[i] # Zero /\ j_biases_pow_[i] # Zero

\* C3: every cost write of a worker thread goes to the buffer of its thread
\* id tid, with 0 <= tid < num_threads_, the number of buffers.
C3_CostWritesInOwnBuffer ==
    \A q \in DOMAIN trace :
        trace[q].cost_writes =>
            /\ 0 <= trace[q].tid /\ trace[q].tid < num_threads_
            /\ trace[q].tid \in DOMAIN i_costs_buffer_
            /\ trace[q].tid \in DOMAIN j_costs_buffer_

NoQueryInProgress ==
    /\ Barrier
    /\ \A t \in Threads : thread[t] = -1

C4_State ==
    (Unbiased /\ calls > 0 /\ phase \in {"ready", "parallel", "updated"}) =>
        /\ updates <= 1
        /\ updates = 1 => NoQueryInProgress
        /\ phase \in {"ready", "updated"} => updates = 1

C4_Step ==
    /\ (phase # "constructed" /\ bias_vars' # bias_vars) =>
           /\ NoQueryInProgress
           /\ updates = 0 /\ updates' = 1
    /\ (Unbiased /\ calls > 0 /\ calls' = calls + 1) => updates = 1

\* C4: with unbiased correction the bias update runs exactly once per
\* GetGradients call that returns, only after every query of the call has
\* finished, and before the next call begins; no bias power and no global
\* cost accumulator is written while a query computation is in progress.
C4_UpdateOnceAfterBarrier == []C4_State /\ [][C4_Step]_vars

\* the second call of an engine with two queries, computed by two threads,
\* has returned after its bias update
C4_Witness ==
    /\ Unbiased /\ phase = "ready" /\ calls = MaxCalls /\ updates = 1
    /\ num_queries_ = 2
    /\ trace[0].tid # -1 /\ trace[1].tid # -1 /\ trace[0].tid # trace[1].tid

PairsOf(q) == {trace[q].pairs[k] : k \in 1..Len(trace[q].pairs)}

\* C5 as stated: in every pair processed by the pairwise computer the
\* document designated "high" has rank < truncation_level; a rank
\* >= truncation_level only appears as the "low" endpoint.
C5_HighRankBelowTruncation ==
    \A q \in Computed : \A p \in PairsOf(q) : p.high_rank < truncation_level_

\* C5: in every pair processed by the pairwise computer the endpoint with
\* the better rank, i, has rank < truncation_level; the other endpoint, j,
\* is any later rank of the query; the "high" document is the endpoint with
\* the larger label, at whichever of the two ranks it is.
C5_BetterRankBelowTruncation ==
    \A q \in Computed : \A p \in PairsOf(q) :
        /\ 0 <= p.i /\ p.i < truncation_level_
        /\ p.i < p.j /\ p.j < trace[q].cnt
        /\ {p.high_rank, p.low_rank} = {p.i, p.j}
        /\ label_[QueryStart(q) + p.high] > label_[QueryStart(q) + p.low]

\* a pair whose "high" document has a rank >= truncation_level
C5_Witness ==
    \E q \in Computed : \E p \in PairsOf(q) :
        p.high_rank >= truncation_level_ /\ p.low_rank < truncation_level_

\* C6: for a query with cnt <= 1 the pairwise and the listwise computer
\* both complete and leave every lambda and hessian of the query zero.
C6_SmallQueryCompletesWithZeros ==
    \A q \in DOMAIN trace :
        (trace[q].tid # -1 /\ trace[q].cnt <= 1) =>
            /\ ~trace[q].crashed
            /\ AllZero(trace[q].lambdas)
            /\ AllZero(trace[q].hessians)

\* C7: every document of a query of the pairwise computer whose score is
\* the sentinel minimum score ends the call with lambda = 0 and hessian = 0.
C7_SentinelGetsZero ==
    objective = "lambdarank" =>
        \A q \in Computed : \A d \in 0..(trace[q].cnt - 1) :
            score[q][d] = kMinScore =>
                /\ gradients[QueryStart(q) + d] = Zero
                /\ hessians[QueryStart(q) + d] = Zero

\* the labels lab with those of the documents a and b exchanged
Exchanged(lab, a, b) ==
    [d \in DOMAIN lab |-> IF d = a THEN lab[b] ELSE IF d = b THEN lab[a] ELSE lab[d]]

\* the pair of the ranks (i, j) among the pairs a computation processed
PairAtRanks(pairs, i, j) ==
    pairs[CHOOSE k \in 1..Len(pairs) : pairs[k].i = i /\ pairs[k].j = j]

SameMagnitude(p, p2) ==
    /\ FAbs(p.p_lambda) = FAbs(p2.p_lambda)
    /\ FAbs(p.p_hessian) = FAbs(p2.p_hessian)

\* the pair p of query q has the magnitude it has when the two documents
\* have exchanged their positions in the input; the two scores are equal,
\* so the labels alone change places
TieSwapUnchanged(q, p) ==
    SameMagnitude(p,
        PairAtRanks(LambdarankOneQuery(q, trace[q].cnt,
                        Exchanged(SliceOf(label_, QueryStart(q), trace[q].cnt),
                                  p.high, p.low),
                        score[q], trace[q].tid, trace[q].garbage).pairs,
                    p.i, p.j))

\* the pairs of query q whose two documents have the same score
TiedPairs(q) == {p \in PairsOf(q) : score[q][p.high] = score[q][p.low]}

\* the bias powers of the two ranks of the pair are inside the vectors and
\* do not differ between the two ranks
EqualBiasPowers(p) ==
    /\ p.j \in DOMAIN i_biases_pow_
    /\ i_biases_pow_[p.i] = i_biases_pow_[p.j]
    /\ j_biases_pow_[p.i] = j_biases_pow_[p.j]

RECURSIVE CostsOfQueries(_, _, _)
CostsOfQueries(costs, which, q) ==
    IF q >= num_queries_ THEN costs
    ELSE CostsOfQueries(
             [i \in DOMAIN costs |->
                 Add(costs[i], IF which = "i" THEN trace[q].i_cost[i]
                               ELSE trace[q].j_cost[i])],
             which, q + 1)

ZeroCosts == [i \in 0..(truncation_level_ - 1) |-> Zero]

\* C9: one GetGradients call produces the same post-update bias powers and
\* random-stream states for every assignment of the queries to threads and
\* every order of execution: the bias powers are those of the costs of the
\* queries of the call, the stream of a query has advanced by the draws of
\* the calls made.
C9_ResultsIndependentOfSchedule ==
    /\ (Unbiased /\ phase = "updated" /\ Computed = Queries) =>
           /\ i_biases_pow_ = BiasesPow(CostsOfQueries(ZeroCosts, "i", 0))
           /\ j_biases_pow_ = BiasesPow(CostsOfQueries(ZeroCosts, "j", 0))
    /\ (objective = "rank_xendcg" /\ Returned) =>
           \A q \in Queries :
               rands_[q] = RandAfter((seed_ + q) % 16,
                                     IF QueryCnt(q) <= 1 THEN 0
                                     ELSE calls * QueryCnt(q))

\* C10: every pair processed by the pairwise computer changes the lambdas
\* of its two documents by equal and opposite amounts and adds the same
\* non-negative amount to both hessians; before the weights are applied
\* every hessian is >= 0 and the lambdas of the two documents of a query
\* with one pair sum to zero.
C10_OppositeLambdasNonNegativeHessians ==
    objective = "lambdarank" =>
        \A q \in Computed :
            /\ \A p \in PairsOf(q) :
                  p.p_lambda.k # "nan" /\ Ge(p.p_hessian, Zero)
            /\ \A d \in DOMAIN trace[q].hessians : Ge(trace[q].hessians[d], Zero)
            /\ \A p \in PairsOf(q) :
                  Len(trace[q].pairs) = 1 =>
                      Eq(Add(trace[q].lambdas[p.high], trace[q].lambdas[p.low]),
                         Zero)

\* nothing of the per-query state of the engine is built: ideal-DCG cache,
\* sigmoid table, bias arrays, cost buffers, random streams
NoPerQueryState ==
    /\ DOMAIN inverse_max_dcgs_ = {}
    /\ sigmoid_table_.size = 0
    /\ DOMAIN i_biases_pow_ = {} /\ DOMAIN j_biases_pow_ = {}
    /\ DOMAIN i_costs_ = {} /\ DOMAIN j_costs_ = {}
    /\ DOMAIN i_costs_buffer_ = {} /\ DOMAIN j_costs_buffer_ = {}
    /\ DOMAIN rands_ = {}

\* C11: an engine whose steepness is zero or negative ends construction in
\* a fatal error, and an engine whose metadata carries no query boundaries
\* ends Init in a fatal error; in both cases no GetGradients call runs on
\* the engine and none of its per-query state is built.
C11_FatalErrorsBuildNothing ==
    /\ (objective = "lambdarank" /\ Le(sigmoid_, Zero)) =>
           phase = "fatal" /\ inits = 0 /\ calls = 0 /\ NoPerQueryState
    /\ (inits > 0 /\ query_boundaries_.null) =>
           phase = "fatal" /\ calls = 0 /\ NoPerQueryState

\* C12: every index the pairwise computer uses to read i_biases_pow_ or
\* j_biases_pow_, or to write a row of a cost buffer, lies in
\* [0, truncation_level), the size of these arrays, for every query size
\* and with unbiased correction on or off.
C12_BiasIndicesBelowTruncation ==
    objective = "lambdarank" =>
        \A q \in DOMAIN trace :
            (trace[q].tid # -1 /\ trace[q].cnt > 0) =>
                /\ ~trace[q].oob_read
                /\ \A p \in PairsOf(q) :
                      /\ p.high_rank \in 0..(truncation_level_ - 1)
                      /\ p.low_rank \in 0..(truncation_level_ - 1)
                      /\ p.high_rank \in DOMAIN i_biases_pow_
                      /\ p.low_rank \in DOMAIN j_biases_pow_

\* the raw bound of the sigmoid table scaled by the steepness:
\* min_sigmoid_input_ after the first Init
ScaledMinSigmoidInput ==
    Div(Div(FromInt(MinSigmoidInput), sigmoid_), FromInt(2))

C13_State ==
    (objective = "lambdarank" /\ inits > 0 /\ phase # "fatal") =>
        /\ min_sigmoid_input_ = ScaledMinSigmoidInput
        /\ max_sigmoid_input_ = Neg(ScaledMinSigmoidInput)
        /\ sigmoid_table_ =
               [size |-> SigmoidBins,
                factor |-> IdxFactor(ScaledMinSigmoidInput,
                                     Neg(ScaledMinSigmoidInput)),
                min |-> ScaledMinSigmoidInput, sigmoid |-> sigmoid_]

C13_Step ==
    inits' = inits =>
        /\ sigmoid_table_' = sigmoid_table_
        /\ min_sigmoid_input_' = min_sigmoid_input_
        /\ max_sigmoid_input_' = max_sigmoid_input_
        /\ sigmoid_table_idx_factor_' = sigmoid_table_idx_factor_

\* C13: the bounds and the contents of the sigmoid table depend on the
\* steepness alone: after any sequence of Init and GetGradients calls, a
\* second Init included, min_sigmoid_input_ = -max_sigmoid_input_ is the
\* raw bound scaled by the steepness, as after the first Init, the table is
\* the one computed for these bounds, and no GetGradients call changes it.
C13_TableDependsOnSteepnessOnly == []C13_State /\ [][C13_Step]_vars

===========================================================================
